---------------------------- MODULE Spec2Model ----------------------------
(***************************************************************************)
(* A model of the KeePass v1 crypter (src/src/kpdb/crypter.rs): the key    *)
(* derivation (get_finalkey, get_passwordkey, get_keyfilekey,              *)
(* transform_key), the payload cipher (decrypt_raw, encrypt_raw), the      *)
(* integrity checks, and the handling of every buffer that holds secret    *)
(* bytes (mlock, munlock, volatile_set_memory, drop).                      *)
(*                                                                         *)
(* Cryptographic values are terms: SHA256 and the AES-ECB round are        *)
(* injective constructors over strings, so two digests are equal exactly   *)
(* when their inputs are.  AES-CBC is an ideal cipher: decrypting under    *)
(* the key and iv that encrypted returns the padded plaintext, and any     *)
(* other decryption returns some other byte string of the same length.     *)
(* symm::decrypt is taken as decrypt_raw takes it ("Delete padding from    *)
(* decrypted data"): it returns the plaintext with its padding.  The       *)
(* Hasher's write_all returns Ok on every input, so the map_err arms that  *)
(* follow it are never taken.                                              *)
(* A byte string is [fill, rest]: `fill` bytes 0x00 followed by the bytes  *)
(* of `rest`, which lets the model hold strings as long as the size cap.   *)
(***************************************************************************)
EXTENDS Integers, Sequences, FiniteSets, TLC

(* ------------------------------ bounds -------------------------------- *)

\* header.key_transf_rounds ranges over 0..MaxRounds
MaxRounds == 2
\* short plaintexts have 0..MaxPlainLen bytes
MaxPlainLen == 1
\* the long key file is read in MaxChunks reads of the 2048-byte buffer
MaxChunks == 2

(* -------------------------- program constants -------------------------- *)

\* AES block size, the unit of symm::Type::AES_256_CBC and AES_256_ECB
BlockSize == 16
\* a key file of this size is the raw key
KeyLen == 32
\* a key file of this size is tried as hex digits
HexLen == 64
\* the read buffer of the key-file hashing loop
ChunkSize == 2048
\* the largest accepted plaintext length
MaxDbLen == 2147483446

(* ------------------------------ values -------------------------------- *)

\* Hasher::new(Type::SHA256) ... write_all(x) ... finish(): injective in x
SHA256(x) == "H(" \o x \o ")"

\* crypter.update(&masterkey) of the AES_256_ECB encryptor keyed with `key`
EcbUpdateVal(key, x) == "E(" \o key \o "," \o x \o ")"

\* crypter.update keeps whole blocks only
EcbUpdateLen(n) == (n \div BlockSize) * BlockSize

Empty == [fill |-> 0, rest |-> <<>>]

BLen(b) == b.fill + Len(b.rest)

\* the last byte of a non-empty byte string
LastByte(b) == IF b.rest = <<>> THEN 0 ELSE b.rest[Len(b.rest)]

RECURSIVE Join(_)
Join(s) == IF s = <<>> THEN "" ELSE ToString(Head(s)) \o "." \o Join(Tail(s))

\* the bytes of b, as the input of a hasher
Str(b) == "0*" \o ToString(b.fill) \o ":" \o Join(b.rest)

\* n bytes of value v
Rep(n, v) == [k \in 1..n |-> v]

\* the first n bytes of b (n <= BLen(b))
Take(b, n) ==
    IF n <= b.fill THEN [fill |-> n, rest |-> <<>>]
    ELSE [fill |-> b.fill, rest |-> SubSeq(b.rest, 1, n - b.fill)]

\* the string content of the password SecureString
PwString == "pw"


(* --------------------------- payload cipher ---------------------------- *)

\* the padding symm::encrypt appends: 1..BlockSize bytes, each the pad length
Pad(b) ==
    LET p == BlockSize - (BLen(b) % BlockSize)
    IN  [fill |-> b.fill, rest |-> b.rest \o Rep(p, p)]

\* symm::encrypt(AES_256_CBC, key, iv, data): the ciphertext is named by what
\* it decrypts to under (key, iv); flipped marks a ciphertext altered in one bit
symm_encrypt(key, iv, data) ==
    [key |-> key, iv |-> iv, data |-> Pad(data), flipped |-> FALSE]

\* the ciphertext of no bytes
EmptyCipher == [key |-> "", iv |-> "", data |-> Empty, flipped |-> FALSE]

\* a ciphertext of one block that this Crypter never produced
ForeignCipher ==
    [key |-> "", iv |-> "", data |-> [fill |-> BlockSize, rest |-> <<>>],
     flipped |-> TRUE]

\* what a decryption under another key, or of an altered ciphertext, yields:
\* n bytes whose last block is garbled and ends in byte g
Garbage(n, g) ==
    [fill |-> n - BlockSize, rest |-> Rep(BlockSize - 1, 99) \o <<g>>]

\* the last bytes a garbled block can end in: no padding, one byte, a whole
\* block, more than any short output holds
GarbageLast == {0, 1, BlockSize, 200}

\* symm::decrypt(AES_256_CBC, key, iv, c), g the environment's choice
symm_decrypt(key, iv, c, g) ==
    IF BLen(c.data) = 0 THEN Empty
    ELSE IF c.key = key /\ c.iv = iv /\ ~c.flipped THEN c.data
    ELSE Garbage(BLen(c.data), g)

\* decrypt_raw's index decrypted_database[len - 1] or its length - padding
\* is out of range: the thread panics
StripPanics(db) == BLen(db) = 0 \/ LastByte(db) > BLen(db)

\* Strip without the resize: the padding stays
StripNothing(db) == db

\* decrypted_database.resize(length - padding, 0)
Strip(db) == Take(db, BLen(db) - LastByte(db))

\* check_decryption_success with >= for >: the cap itself is rejected
check_decryption_success_ge(num_groups, len) ==
    ~((len >= MaxDbLen) \/ (len = 0 /\ num_groups > 0))

\* TRUE for Ok(()), FALSE for Err(DecryptErr)
check_decryption_success(num_groups, len) ==
    ~((len > MaxDbLen) \/ (len = 0 /\ num_groups > 0))

get_content_hash(db) == SHA256(Str(db))

\* check_content_hash with == for !=: a mismatch passes
check_content_hash_eq(content_hash, db) == get_content_hash(db) # content_hash

\* TRUE for Ok(()), FALSE for Err(HashErr)
check_content_hash(content_hash, db) == get_content_hash(db) = content_hash

(* ---------------------------- key material ----------------------------- *)

\* the n bytes of file f from offset pos
FileData(f, pos, n) ==
    f.enc \o "[" \o ToString(pos) \o "+" \o ToString(n) \o "]"

\* (&key[..]).from_hex() succeeds on 64 hex digits
from_hex_ok(f) == f.enc = "hex"

from_hex(s) == "unhex(" \o s \o ")"

\* file.read_to_string succeeds on readable UTF-8 content
read_to_string_ok(f) == f.readable /\ f.enc \in {"hex", "text"}

\* the bytes one file.read(&mut buf[..]) returns at offset pos
ReadLen(f, pos) ==
    IF f.len - pos < ChunkSize THEN f.len - pos ELSE ChunkSize

\* MixKeys with the two write_all calls in the other order
MixKeysSwapped(passwordkey, keyfilekey) == SHA256(keyfilekey \o passwordkey)

\* hasher.write_all(&passwordkey); hasher.write_all(&keyfilekey); finish()
MixKeys(passwordkey, keyfilekey) == SHA256(passwordkey \o keyfilekey)

\* SHA-256(final_randomseed || masterkey)
FinalKey(final_randomseed, masterkey) == SHA256(final_randomseed \o masterkey)

(* ---------------------------- secret buffers --------------------------- *)

Holders ==
    {"passwordkey", "keyfilekey", "key", "decoded_key", "buf",
     "masterkey_tmp", "masterkey", "finalkey", "database"}

NoBuf == [st |-> "none", val |-> "", len |-> 0, dlen |-> 0, locked |-> FALSE]

\* a fresh allocation of n bytes of value v: nothing is locked yet;
\* dlen is the extent of the allocation that holds non-zero secret bytes
Buf(v, n) == [st |-> "live", val |-> v, len |-> n, dlen |-> n, locked |-> FALSE]

\* mman::mlock(b.as_ptr(), b.len()): a length of 0 locks nothing
mlock(b) == IF b.len > 0 THEN [b EXCEPT !.locked = TRUE] ELSE b

\* mman::munlock(b.as_ptr(), b.len())
munlock(b) == IF b.len > 0 THEN [b EXCEPT !.locked = FALSE] ELSE b

\* intrinsics::volatile_set_memory(b.as_ptr(), 0, b.len()): bytes beyond
\* b.len() keep what they held
volatile_set_memory(b) ==
    IF b.len >= b.dlen THEN [b EXCEPT !.dlen = 0, !.val = ""] ELSE b

\* what dropping the live buffers among H releases
Dropped(m, H) ==
    {[site |-> h, dirty |-> m[h].dlen > 0, locked |-> m[h].locked] :
        h \in {x \in H : m[x].st = "live"}}

\* the heap after the buffers of H are dropped
Without(m, H) == [h \in Holders |-> IF h \in H THEN NoBuf ELSE m[h]]

\* the heap after the buffer of holder a has moved to holder b
Moved(m, a, b) == [m EXCEPT ![b] = m[a], ![a] = NoBuf]

(* ------------------------------- inputs -------------------------------- *)

KeyFile(e, s, r, n, c) ==
    [exists |-> e, seekable |-> s, readable |-> r, len |-> n, enc |-> c]

\* the file of a Crypter that has no key file
NoFile == KeyFile(FALSE, FALSE, FALSE, 0, "none")

LongLen == (MaxChunks - 1) * ChunkSize + 100

\* a missing file, a file that cannot seek, and readable or unreadable
\* files of 32 bytes, of 64 bytes (hex digits, other text, not UTF-8) and
\* of another length
KeyFiles ==
    {KeyFile(FALSE, TRUE, TRUE, KeyLen, "binary"),
     KeyFile(TRUE, FALSE, TRUE, KeyLen, "binary")}
    \cup {KeyFile(TRUE, TRUE, r, KeyLen, "binary") : r \in BOOLEAN}
    \cup {KeyFile(TRUE, TRUE, r, HexLen, c) :
            r \in BOOLEAN, c \in {"hex", "text", "binary"}}
    \cup {KeyFile(TRUE, TRUE, r, LongLen, "binary") : r \in BOOLEAN}

\* the largest padded size that fits the size cap
LargestPadded == (MaxDbLen \div BlockSize) * BlockSize

\* short plaintexts, a whole block, the longest whose padding fits the cap,
\* the cap, one byte more, and one byte that is no valid pad length
Plaintexts ==
    {[fill |-> n, rest |-> <<>>] :
        n \in (0..MaxPlainLen)
              \cup {BlockSize, LargestPadded - 1, MaxDbLen, MaxDbLen + 1}}
    \cup {[fill |-> 0, rest |-> <<200>>]}

\* how the caller of decrypt_database departs from what was encrypted:
\* not at all, one bit of the ciphertext, of final_randomseed, of
\* transf_randomseed, or an empty ciphertext
Tampers == {"none", "ct", "fseed", "tseed", "empty"}

Flip(seed) == seed \o "^"

(* -------------------------------- state -------------------------------- *)

VARIABLES
    password,   \* Crypter.password: "none", "locked" or "unlocked"
    keyfile,    \* Crypter.keyfile: "none", "locked" or "unlocked"
    file,       \* the file the keyfile path names
    base,       \* the database's header as written
    plaintext,  \* the caller's plaintext
    calls,      \* calls made so far
    op,         \* the running or last call: "none", "enc", "dec"
    header,     \* the header the call was given
    enc,        \* the ciphertext decrypt_database was given
    tamper,     \* how header and enc depart from base and cipher
    pc,         \* the next statement of the call, "idle" between calls
    mode,       \* the arm of get_finalkey's match: "pw", "kf", "both"
    mem,        \* the secret buffers, by the local that owns each
    released,   \* what the call has released so far
    shrunk,     \* the buffers the call has shortened
    database,   \* the bytes of decrypted_database
    hasher,     \* the bytes get_keyfilekey's hasher has absorbed
    fpos,       \* the key file's read offset
    i,          \* ECB rounds done by transform_key
    master0,    \* the masterkey transform_key was given
    kfkey0,     \* the key get_keyfilekey returned
    cipher,     \* the ciphertext encrypt_database returned
    result      \* the call's outcome and returned bytes

vars ==
    <<password, keyfile, file, base, plaintext, calls, op, header, enc,
      tamper, pc, mode, mem, released, shrunk, database, hasher, fpos, i,
      master0, kfkey0, cipher, result>>

env == <<file, base, plaintext>>

callv == <<calls, op, header, enc, tamper>>

NoResult == [kind |-> "none", data |-> Empty]

NoCipher == [key |-> "none", iv |-> "", data |-> Empty, flipped |-> FALSE]

Header(ts, r, fs, ch, ng) ==
    [transf_randomseed |-> ts, key_transf_rounds |-> r,
     final_randomseed |-> fs, iv |-> "iv", content_hash |-> ch,
     num_groups |-> ng]

Init ==
    /\ password \in {"none", "locked"}
    /\ keyfile \in {"none", "locked"}
    /\ file \in IF keyfile = "none" THEN {NoFile} ELSE KeyFiles
    /\ plaintext \in Plaintexts
    /\ \E r \in 0..MaxRounds, ng \in {0, 1} :
          base = Header("ts", r, "fs", get_content_hash(plaintext), ng)
    /\ calls = 0
    /\ op = "none"
    /\ header = base
    /\ enc = NoCipher
    /\ tamper = "none"
    /\ pc = "idle"
    /\ mode = "none"
    /\ mem = [h \in Holders |-> NoBuf]
    /\ released = {}
    /\ shrunk = {}
    /\ database = Empty
    /\ hasher = ""
    /\ fpos = 0
    /\ i = 0
    /\ master0 = ""
    /\ kfkey0 = ""
    /\ cipher = NoCipher
    /\ result = NoResult

(* ----------------------------- SecureString ---------------------------- *)

\* SecureString::unlock(): the plaintext is readable
unlock(s) == "unlocked"

\* SecureString::delete(): the plaintext is zeroed
delete(s) == "locked"

(* ------------------------------ the calls ------------------------------ *)

\* the call returns: every local still alive is dropped, but for `keep`,
\* which moves to the caller
Finish(kind, data, m, keep) ==
    /\ result' = [kind |-> kind, data |-> data]
    /\ released' = released \cup Dropped(m, Holders \ keep)
    /\ mem' = Without(m, Holders \ keep)
    /\ pc' = "idle"

\* the plaintext buffer the caller of encrypt_database hands over, locked
CallerBuf(n) == mlock(Buf("", n))

\* encrypt_database(&mut self, header, decrypted_database) is called
CallEncrypt ==
    /\ pc = "idle"
    /\ calls = 0
    /\ calls' = 1
    /\ op' = "enc"
    /\ header' = base
    /\ enc' = NoCipher
    /\ tamper' = "none"
    /\ mem' = [h \in Holders |->
                 IF h = "database" THEN CallerBuf(BLen(plaintext)) ELSE NoBuf]
    /\ database' = plaintext
    /\ released' = {}
    /\ shrunk' = {}
    /\ result' = NoResult
    /\ mode' = "none"
    /\ hasher' = ""
    /\ fpos' = 0
    /\ i' = 0
    /\ master0' = ""
    /\ kfkey0' = ""
    /\ pc' = "get_finalkey"
    /\ UNCHANGED <<password, keyfile, env, cipher>>

\* decrypt_database(&mut self, header, encrypted_database) is called, on
\* what encrypt_database returned or on a departure from it
CallDecrypt ==
    /\ pc = "idle"
    /\ op # "dec"
    /\ \E t \in Tampers, good \in BOOLEAN :
          /\ t \in {"none", "fseed", "tseed"} => cipher # NoCipher
          /\ tamper' = t
          /\ header' =
                Header(IF t = "tseed" THEN Flip(base.transf_randomseed)
                                      ELSE base.transf_randomseed,
                       base.key_transf_rounds,
                       IF t = "fseed" THEN Flip(base.final_randomseed)
                                      ELSE base.final_randomseed,
                       IF good THEN base.content_hash ELSE SHA256("other"),
                       base.num_groups)
          /\ enc' = CASE t = "empty" -> EmptyCipher
                      [] t = "ct" -> IF cipher = NoCipher THEN ForeignCipher
                                     ELSE [cipher EXCEPT !.flipped = TRUE]
                      [] OTHER -> cipher
    /\ calls' = calls + 1
    /\ op' = "dec"
    /\ mem' = [h \in Holders |-> NoBuf]
    /\ database' = Empty
    /\ released' = {}
    /\ shrunk' = {}
    /\ result' = NoResult
    /\ mode' = "none"
    /\ hasher' = ""
    /\ fpos' = 0
    /\ i' = 0
    /\ master0' = ""
    /\ kfkey0' = ""
    /\ pc' = "get_finalkey"
    /\ UNCHANGED <<password, keyfile, env, cipher>>

(* ----------------------------- get_finalkey ---------------------------- *)

\* match (&mut self.password, &mut self.keyfile)
MatchArm(p, k) ==
    CASE p # "none" /\ k = "none" -> "pw"
      [] p = "none" /\ k # "none" -> "kf"
      [] p # "none" /\ k # "none" -> "both"
      [] OTHER -> "neither"

get_finalkey ==
    /\ pc = "get_finalkey"
    /\ LET arm == MatchArm(password, keyfile)
       IN  IF arm = "neither"
           THEN /\ Finish("PassErr", Empty, mem, {})
                /\ UNCHANGED mode
           ELSE /\ mode' = arm
                /\ pc' = IF arm = "kf" THEN "kf_unlock" ELSE "pk_unlock"
                /\ UNCHANGED <<mem, released, result>>
    /\ UNCHANGED shrunk
    /\ UNCHANGED <<password, keyfile, env, callv, database, hasher, fpos, i,
                   master0, kfkey0, cipher>>

(* --------------------------- get_passwordkey --------------------------- *)

\* password.unlock()
pk_unlock ==
    /\ pc = "pk_unlock"
    /\ password' = unlock(password)
    /\ pc' = "pk_hash"
    /\ UNCHANGED <<keyfile, env, callv, mode, mem, released, shrunk, database, hasher,
                   fpos, i, master0, kfkey0, cipher, result>>

\* hasher.write_all(password_string); password.delete()
pk_hash ==
    /\ pc = "pk_hash"
    /\ password' = delete(password)
    /\ pc' = "pk_finish"
    /\ UNCHANGED <<keyfile, env, callv, mode, mem, released, shrunk, database, hasher,
                   fpos, i, master0, kfkey0, cipher, result>>

\* let passwordkey = hasher.finish()
pk_finish ==
    /\ pc = "pk_finish"
    /\ mem' = [mem EXCEPT !["passwordkey"] = Buf(SHA256(PwString), KeyLen)]
    /\ pc' = "pk_lock"
    /\ UNCHANGED <<password, keyfile, env, callv, mode, released, shrunk, database,
                   hasher, fpos, i, master0, kfkey0, cipher, result>>

\* the arm's own local takes the key a helper returned from holder h
Bind(m, h, arm) ==
    IF arm = "both" THEN m
    ELSE Moved(m, h, "masterkey")

\* mlock(passwordkey); Ok(passwordkey): back in get_finalkey
pk_lock ==
    /\ pc = "pk_lock"
    /\ LET m == [mem EXCEPT !["passwordkey"] = mlock(@)]
       IN  /\ mem' = Bind(m, "passwordkey", mode)
           /\ master0' = IF mode = "pw" THEN m["passwordkey"].val ELSE master0
    /\ pc' = IF mode = "pw" THEN "transform_key" ELSE "kf_unlock"
    /\ UNCHANGED <<password, keyfile, env, callv, mode, released, shrunk, database,
                   hasher, fpos, i, kfkey0, cipher, result>>

(* ---------------------------- get_keyfilekey --------------------------- *)

\* the locals of get_keyfilekey
KfLocals == {"key", "decoded_key", "buf"}

\* Ok(m[h].val) from get_keyfilekey: its other locals are dropped and the
\* arm of get_finalkey binds the key
KfReturn(m, h) ==
    LET rest == KfLocals \ {h}
        m1 == Without(m, rest)
    IN  /\ released' = released \cup Dropped(m, rest)
        /\ kfkey0' = m[h].val
        /\ mem' = Moved(m1, h, IF mode = "both" THEN "keyfilekey"
                                                ELSE "masterkey")
        /\ master0' = IF mode = "both" THEN master0 ELSE m[h].val
        /\ pc' = IF mode = "both" THEN "gfk_mix" ELSE "transform_key"

\* keyfile.unlock()
kf_unlock ==
    /\ pc = "kf_unlock"
    /\ keyfile' = unlock(keyfile)
    /\ pc' = "kf_open"
    /\ UNCHANGED <<password, env, callv, mode, mem, released, shrunk,
                   database, hasher, fpos, i, master0, kfkey0, cipher, result>>

\* try!(File::open(&keyfile.string)); keyfile.delete()
kf_open ==
    /\ pc = "kf_open"
    /\ IF file.exists
       THEN /\ keyfile' = delete(keyfile)
            /\ pc' = "kf_seek"
            /\ UNCHANGED <<mem, released, result>>
       ELSE /\ Finish("FileErr", Empty, mem, {})
            /\ UNCHANGED keyfile
    /\ UNCHANGED <<password, env, callv, mode, shrunk, database, hasher, fpos,
                   i, master0, kfkey0, cipher>>

\* file.seek(SeekFrom::End(0)), file.seek(SeekFrom::Start(0)), and the
\* branch on file_size
kf_seek ==
    /\ pc = "kf_seek"
    /\ IF file.seekable
       THEN /\ fpos' = 0
            /\ pc' = CASE file.len = KeyLen -> "kf_raw_read"
                       [] file.len = HexLen -> "kf_hex_alloc"
                       [] OTHER -> "kf_hash_init"
            /\ UNCHANGED <<mem, released, result>>
       ELSE /\ Finish("FileErr", Empty, mem, {})
            /\ UNCHANGED fpos
    /\ UNCHANGED <<password, keyfile, env, callv, mode, shrunk, database,
                   hasher, i, master0, kfkey0, cipher>>

\* let mut key = vec![]; try!(file.read_to_end(&mut key))
kf_raw_read ==
    /\ pc = "kf_raw_read"
    /\ IF file.readable
       THEN /\ mem' = [mem EXCEPT
                         !["key"] = Buf(FileData(file, 0, file.len), file.len)]
            /\ fpos' = file.len
            /\ pc' = "kf_raw_lock"
            /\ UNCHANGED <<released, result>>
       ELSE /\ Finish("ReadErr", Empty, mem, {})
            /\ UNCHANGED fpos
    /\ UNCHANGED <<password, keyfile, env, callv, mode, shrunk, database,
                   hasher, i, master0, kfkey0, cipher>>

\* mlock(key); return Ok(key)
kf_raw_lock ==
    /\ pc = "kf_raw_lock"
    /\ KfReturn([mem EXCEPT !["key"] = mlock(@)], "key")
    /\ UNCHANGED <<password, keyfile, env, callv, mode, shrunk, database,
                   hasher, fpos, i, cipher, result>>

\* let mut key: String = "".to_string(); mlock(key.as_ptr(), key.len())
kf_hex_alloc ==
    /\ pc = "kf_hex_alloc"
    /\ mem' = [mem EXCEPT !["key"] = mlock(Buf("", 0))]
    /\ pc' = "kf_hex_read"
    /\ UNCHANGED <<password, keyfile, env, callv, mode, released, shrunk,
                   database, hasher, fpos, i, master0, kfkey0, cipher, result>>

\* file.read_to_string(&mut key): on Ok the string holds the file; on Err
\* the string keeps its length 0, and the bytes read before a UTF-8 error
\* stay in its allocation
kf_hex_read ==
    /\ pc = "kf_hex_read"
    /\ IF read_to_string_ok(file)
       THEN /\ mem' = [mem EXCEPT
                         !["key"] = [@ EXCEPT
                            !.val = FileData(file, 0, file.len),
                            !.len = file.len, !.dlen = file.len]]
            /\ fpos' = file.len
            /\ pc' = "kf_hex_decode"
       ELSE /\ mem' = [mem EXCEPT
                         !["key"] = [@ EXCEPT
                            !.dlen = IF file.readable THEN file.len ELSE 0]]
            /\ fpos' = IF file.readable THEN file.len ELSE 0
            /\ pc' = "kf_hex_err"
    /\ UNCHANGED <<password, keyfile, env, callv, mode, released, shrunk,
                   database, hasher, i, master0, kfkey0, cipher, result>>

\* match (&key[..]).from_hex(): Ok(decoded_key), or Err(_) => {} and the
\* end of the block, where key is dropped; the file stays where
\* read_to_string left it
kf_hex_decode ==
    /\ pc = "kf_hex_decode"
    /\ IF from_hex_ok(file)
       THEN /\ mem' = [mem EXCEPT
                         !["decoded_key"] = Buf(from_hex(mem["key"].val), KeyLen)]
            /\ pc' = "kf_hex_lock"
            /\ UNCHANGED <<released, fpos>>
       ELSE /\ released' = released \cup Dropped(mem, {"key"})
            /\ mem' = Without(mem, {"key"})
            /\ pc' = "kf_hash_init"
            /\ UNCHANGED fpos
    /\ UNCHANGED <<password, keyfile, env, callv, mode, shrunk, database,
                   hasher, i, master0, kfkey0, cipher, result>>

\* mlock(decoded_key); volatile_set_memory(key); munlock(key);
\* return Ok(decoded_key)
kf_hex_lock ==
    /\ pc = "kf_hex_lock"
    /\ KfReturn([mem EXCEPT !["decoded_key"] = mlock(@),
                            !["key"] = munlock(volatile_set_memory(@))],
                "decoded_key")
    /\ UNCHANGED <<password, keyfile, env, callv, mode, shrunk, database,
                   hasher, fpos, i, cipher, result>>

\* the arm Err(_) of read_to_string: volatile_set_memory(key); munlock(key);
\* try!(file.seek(SeekFrom::Start(0))); key is dropped at the end of the block
kf_hex_err ==
    /\ pc = "kf_hex_err"
    /\ LET m == [mem EXCEPT !["key"] = munlock(volatile_set_memory(@))]
       IN  /\ released' = released \cup Dropped(m, {"key"})
           /\ mem' = Without(m, {"key"})
    /\ fpos' = 0
    /\ pc' = "kf_hash_init"
    /\ UNCHANGED <<password, keyfile, env, callv, mode, shrunk, database,
                   hasher, i, master0, kfkey0, cipher, result>>

\* let mut hasher = Hasher::new(SHA256); let mut buf = vec![]; mlock(buf)
kf_hash_init ==
    /\ pc = "kf_hash_init"
    /\ hasher' = ""
    /\ mem' = [mem EXCEPT !["buf"] = mlock(Buf("", 0))]
    /\ pc' = "kf_hash_read"
    /\ UNCHANGED <<password, keyfile, env, callv, mode, released, shrunk,
                   database, fpos, i, master0, kfkey0, cipher, result>>

\* vec![0; 2048]: ChunkSize bytes, all zero, not locked
ZeroBuf == [st |-> "live", val |-> "", len |-> ChunkSize, dlen |-> 0,
            locked |-> FALSE]

\* buf = vec![0; 2048] (the old buf is dropped); file.read(&mut buf[..]):
\* Err returns ReadErr, Ok(0) breaks, Ok(n) fills the first n bytes
kf_hash_read ==
    /\ pc = "kf_hash_read"
    /\ LET rel == released \cup Dropped(mem, {"buf"})
           n == ReadLen(file, fpos)
       IN  IF ~file.readable
           THEN /\ result' = [kind |-> "ReadErr", data |-> Empty]
                /\ released' =
                      rel \cup Dropped([mem EXCEPT !["buf"] = ZeroBuf], Holders)
                /\ mem' = Without(mem, Holders)
                /\ pc' = "idle"
                /\ UNCHANGED fpos
           ELSE /\ released' = rel
                /\ mem' = [mem EXCEPT
                             !["buf"] = IF n = 0 THEN ZeroBuf
                                        ELSE [ZeroBuf EXCEPT
                                                !.val = FileData(file, fpos, n),
                                                !.dlen = n]]
                /\ fpos' = fpos + n
                /\ pc' = IF n = 0 THEN "kf_hash_finish" ELSE "kf_hash_update"
                /\ UNCHANGED result
    /\ UNCHANGED <<password, keyfile, env, callv, mode, shrunk, database,
                   hasher, i, master0, kfkey0, cipher>>

\* b shortened to n bytes: the bytes beyond n are given up as they are
Shorten(b, n) == [b EXCEPT !.len = n]

\* what shortening holder h of m to n bytes gives up
GivenUp(m, h, n) == {[site |-> h, dirty |-> m[h].dlen > n]}

\* buf.truncate(n); hasher.write_all(&buf[..]); volatile_set_memory(buf)
kf_hash_update ==
    /\ pc = "kf_hash_update"
    /\ LET n == mem["buf"].dlen
       IN  /\ shrunk' = shrunk \cup GivenUp(mem, "buf", n)
           /\ hasher' = hasher \o mem["buf"].val
           /\ mem' = [mem EXCEPT
                        !["buf"] = volatile_set_memory(Shorten(@, n))]
    /\ pc' = "kf_hash_read"
    /\ UNCHANGED <<password, keyfile, env, callv, mode, released, database,
                   fpos, i, master0, kfkey0, cipher, result>>

\* let key = hasher.finish()
kf_hash_finish ==
    /\ pc = "kf_hash_finish"
    /\ mem' = [mem EXCEPT !["key"] = Buf(SHA256(hasher), KeyLen)]
    /\ pc' = "kf_hash_lock"
    /\ UNCHANGED <<password, keyfile, env, callv, mode, released, shrunk,
                   database, hasher, fpos, i, master0, kfkey0, cipher, result>>

\* munlock(buf); mlock(key); Ok(key)
kf_hash_lock ==
    /\ pc = "kf_hash_lock"
    /\ KfReturn([mem EXCEPT !["buf"] = munlock(@), !["key"] = mlock(@)], "key")
    /\ UNCHANGED <<password, keyfile, env, callv, mode, shrunk, database,
                   hasher, fpos, i, cipher, result>>

(* ------------------- get_finalkey, both credentials -------------------- *)

\* hasher.write_all(&passwordkey); hasher.write_all(&keyfilekey);
\* let masterkey_tmp = hasher.finish()
gfk_mix ==
    /\ pc = "gfk_mix"
    /\ mem' = [mem EXCEPT
                 !["masterkey_tmp"] =
                    Buf(MixKeys(mem["passwordkey"].val, mem["keyfilekey"].val),
                        KeyLen)]
    /\ pc' = "gfk_clean"
    /\ UNCHANGED <<password, keyfile, env, callv, mode, released, shrunk,
                   database, hasher, fpos, i, master0, kfkey0, cipher, result>>

\* volatile_set_memory and munlock of passwordkey and keyfilekey,
\* mlock(masterkey_tmp); masterkey_tmp is the arm's value, and the two keys
\* are dropped at the end of the arm
gfk_clean ==
    /\ pc = "gfk_clean"
    /\ LET m == [mem EXCEPT
                   !["passwordkey"] = munlock(volatile_set_memory(@)),
                   !["keyfilekey"] = munlock(volatile_set_memory(@)),
                   !["masterkey_tmp"] = mlock(@)]
           keys == {"passwordkey", "keyfilekey"}
       IN  /\ released' = released \cup Dropped(m, keys)
           /\ mem' = Moved(Without(m, keys), "masterkey_tmp", "masterkey")
           /\ master0' = m["masterkey_tmp"].val
    /\ pc' = "transform_key"
    /\ UNCHANGED <<password, keyfile, env, callv, mode, shrunk, database,
                   hasher, fpos, i, kfkey0, cipher, result>>

(* ----------------------------- transform_key --------------------------- *)

\* RoundDue with the inclusive range 0...rounds: one round too many
RoundDueInclusive(k, rounds) == k <= rounds

\* for _ in 0..header.key_transf_rounds: another round is due after k rounds
RoundDue(k, rounds) == k < rounds

\* masterkey = crypter.update(&masterkey): the Vec that update returns
\* replaces masterkey, whose old Vec is dropped
tk_round ==
    /\ pc = "transform_key"
    /\ RoundDue(i, header.key_transf_rounds)
    /\ released' = released \cup Dropped(mem, {"masterkey"})
    /\ mem' = [mem EXCEPT
                 !["masterkey"] =
                    Buf(EcbUpdateVal(header.transf_randomseed, @.val),
                        EcbUpdateLen(@.len))]
    /\ i' = i + 1
    /\ UNCHANGED <<password, keyfile, env, callv, pc, mode, shrunk, database,
                   hasher, fpos, master0, kfkey0, cipher, result>>

\* hasher.write_all(&masterkey); masterkey = hasher.finish()
tk_hash ==
    /\ pc = "transform_key"
    /\ ~RoundDue(i, header.key_transf_rounds)
    /\ released' = released \cup Dropped(mem, {"masterkey"})
    /\ mem' = [mem EXCEPT !["masterkey"] = Buf(SHA256(@.val), KeyLen)]
    /\ pc' = "tk_final"
    /\ UNCHANGED <<password, keyfile, env, callv, mode, shrunk, database,
                   hasher, fpos, i, master0, kfkey0, cipher, result>>

\* hasher.write_all(&header.final_randomseed); hasher.write_all(&masterkey);
\* let finalkey = hasher.finish()
tk_final ==
    /\ pc = "tk_final"
    /\ mem' = [mem EXCEPT
                 !["finalkey"] =
                    Buf(FinalKey(header.final_randomseed, mem["masterkey"].val),
                        KeyLen)]
    /\ pc' = "tk_clean"
    /\ UNCHANGED <<password, keyfile, env, callv, mode, released, shrunk,
                   database, hasher, fpos, i, master0, kfkey0, cipher, result>>

\* volatile_set_memory(masterkey); munlock(masterkey); mlock(finalkey);
\* Ok(finalkey): masterkey is dropped, and the call goes on in decrypt_raw
\* or encrypt_raw
tk_clean ==
    /\ pc = "tk_clean"
    /\ LET m == [mem EXCEPT
                   !["masterkey"] = munlock(volatile_set_memory(@)),
                   !["finalkey"] = mlock(@)]
       IN  /\ released' = released \cup Dropped(m, {"masterkey"})
           /\ mem' = Without(m, {"masterkey"})
    /\ pc' = IF op = "dec" THEN "decrypt_raw" ELSE "encrypt_raw"
    /\ UNCHANGED <<password, keyfile, env, callv, mode, shrunk, database,
                   hasher, fpos, i, master0, kfkey0, cipher, result>>

(* ------------------------------ decrypt_raw ---------------------------- *)

\* let mut decrypted_database = symm::decrypt(AES_256_CBC, &finalkey, iv, ..)
dr_decrypt ==
    /\ pc = "decrypt_raw"
    /\ \E g \in GarbageLast :
          database' = symm_decrypt(mem["finalkey"].val, header.iv, enc, g)
    /\ mem' = [mem EXCEPT !["database"] = Buf("", BLen(database'))]
    /\ pc' = "dr_zero"
    /\ UNCHANGED <<password, keyfile, env, callv, mode, released, shrunk,
                   hasher, fpos, i, master0, kfkey0, cipher, result>>

\* volatile_set_memory(finalkey); munlock(finalkey)
dr_zero ==
    /\ pc = "dr_zero"
    /\ mem' = [mem EXCEPT !["finalkey"] = munlock(volatile_set_memory(@))]
    /\ pc' = "dr_strip"
    /\ UNCHANGED <<password, keyfile, env, callv, mode, released, shrunk,
                   database, hasher, fpos, i, master0, kfkey0, cipher, result>>

\* let padding = decrypted_database[len - 1]; resize(length - padding, 0):
\* out of range the thread panics and unwinds
dr_strip ==
    /\ pc = "dr_strip"
    /\ IF StripPanics(database)
       THEN /\ Finish("Panic", Empty, mem, {})
            /\ UNCHANGED <<database, shrunk>>
       ELSE /\ database' = Strip(database)
            /\ shrunk' = shrunk \cup GivenUp(mem, "database", BLen(database'))
            /\ mem' = [mem EXCEPT
                         !["database"] = Shorten(@, BLen(database'))]
            /\ pc' = "dr_lock"
            /\ UNCHANGED <<released, result>>
    /\ UNCHANGED <<password, keyfile, env, callv, mode, hasher, fpos, i,
                   master0, kfkey0, cipher>>

\* mlock(decrypted_database); decrypted_database: finalkey is dropped
dr_lock ==
    /\ pc = "dr_lock"
    /\ LET m == [mem EXCEPT !["database"] = mlock(@)]
       IN  /\ released' = released \cup Dropped(m, {"finalkey"})
           /\ mem' = Without(m, {"finalkey"})
    /\ pc' = "check_success"
    /\ UNCHANGED <<password, keyfile, env, callv, mode, shrunk, database,
                   hasher, fpos, i, master0, kfkey0, cipher, result>>

(* --------------------------- decrypt_database -------------------------- *)

\* try!(Crypter::check_decryption_success(header, &decrypted_database))
dd_check_success ==
    /\ pc = "check_success"
    /\ IF check_decryption_success(header.num_groups, BLen(database))
       THEN /\ pc' = "check_hash"
            /\ UNCHANGED <<mem, released, result>>
       ELSE Finish("DecryptErr", Empty, mem, {})
    /\ UNCHANGED <<password, keyfile, env, callv, mode, shrunk, database,
                   hasher, fpos, i, master0, kfkey0, cipher>>

\* try!(Crypter::check_content_hash(header, &decrypted_database));
\* Ok(decrypted_database)
dd_check_hash ==
    /\ pc = "check_hash"
    /\ IF check_content_hash(header.content_hash, database)
       THEN Finish("Ok", database, mem, {"database"})
       ELSE Finish("HashErr", Empty, mem, {})
    /\ UNCHANGED <<password, keyfile, env, callv, mode, shrunk, database,
                   hasher, fpos, i, master0, kfkey0, cipher>>

(* ------------------------------ encrypt_raw ---------------------------- *)

\* let encrypted_database = symm::encrypt(AES_256_CBC, &finalkey, iv, ..)
er_encrypt ==
    /\ pc = "encrypt_raw"
    /\ enc' = symm_encrypt(mem["finalkey"].val, header.iv, database)
    /\ pc' = "er_clean"
    /\ UNCHANGED <<password, keyfile, env, calls, op, header, tamper, mode,
                   mem, released, shrunk, database, hasher, fpos, i, master0,
                   kfkey0, cipher, result>>

\* volatile_set_memory and munlock of finalkey and of decrypted_database;
\* Ok(encrypted_database)
er_clean ==
    /\ pc = "er_clean"
    /\ Finish("Ok", Empty,
              [mem EXCEPT !["finalkey"] = munlock(volatile_set_memory(@)),
                          !["database"] = munlock(volatile_set_memory(@))],
              {})
    /\ cipher' = enc
    /\ UNCHANGED <<password, keyfile, env, callv, mode, shrunk, database,
                   hasher, fpos, i, master0, kfkey0>>

(* ---------------------------- specification ---------------------------- *)

Next ==
    \/ CallEncrypt
    \/ CallDecrypt
    \/ get_finalkey
    \/ pk_unlock
    \/ pk_hash
    \/ pk_finish
    \/ pk_lock
    \/ kf_unlock
    \/ kf_open
    \/ kf_seek
    \/ kf_raw_read
    \/ kf_raw_lock
    \/ kf_hex_alloc
    \/ kf_hex_read
    \/ kf_hex_decode
    \/ kf_hex_lock
    \/ kf_hex_err
    \/ kf_hash_init
    \/ kf_hash_read
    \/ kf_hash_update
    \/ kf_hash_finish
    \/ kf_hash_lock
    \/ gfk_mix
    \/ gfk_clean
    \/ tk_round
    \/ tk_hash
    \/ tk_final
    \/ tk_clean
    \/ dr_decrypt
    \/ dr_zero
    \/ dr_strip
    \/ dr_lock
    \/ dd_check_success
    \/ dd_check_hash
    \/ er_encrypt
    \/ er_clean

Spec == Init /\ [][Next]_vars

(* ------------------------------- claims -------------------------------- *)

\* the call has returned from decrypt_database
DecryptDone == pc = "idle" /\ op = "dec"

\* C1: decrypt_database returns Ok(p) only after check_decryption_success and
\* then check_content_hash passed on p: whenever it returns Ok(p), SHA-256(p)
\* is header.content_hash and p passed the size check, the hash check is only
\* reached by a plaintext that passed the size check, and a call that does
\* not return Ok returns no plaintext.
C1_OkOnlyAfterChecks ==
    /\ pc = "check_hash" =>
          ~(BLen(database) > MaxDbLen
            \/ (BLen(database) = 0 /\ header.num_groups > 0))
    /\ DecryptDone /\ result.kind = "Ok" =>
          /\ result.data = database
          /\ SHA256(Str(result.data)) = header.content_hash
          /\ ~(BLen(result.data) > MaxDbLen
               \/ (BLen(result.data) = 0 /\ header.num_groups > 0))
    /\ DecryptDone /\ result.kind # "Ok" =>
          /\ result.data = Empty
          /\ mem["database"].st = "none"

\* a decryption of an altered ciphertext that returned Ok
C1_Witness ==
    /\ DecryptDone
    /\ result.kind = "Ok"
    /\ tamper = "ct"

\* the round trip: decrypt_database was given what encrypt_database
\* returned, the same header with content_hash = SHA-256(plaintext)
RoundTrip ==
    /\ DecryptDone
    /\ cipher # NoCipher
    /\ tamper = "none"
    /\ header = base

\* C2 as stated: every round trip of a plaintext whose padded size fits the
\* size cap returns Ok(plaintext).
C2_RoundTripOriginal ==
    RoundTrip /\ BLen(Pad(plaintext)) <= MaxDbLen =>
        result = [kind |-> "Ok", data |-> plaintext]

\* C2, amended: every round trip of a plaintext whose padded size fits the
\* size cap and that is not empty unless header.num_groups = 0 returns
\* Ok(plaintext), byte for
\* byte; the ciphertext is the plaintext and 1..16 padding bytes long, and
\* decrypt_raw strips exactly those.
C2_RoundTrip ==
    /\ RoundTrip /\ BLen(Pad(plaintext)) <= MaxDbLen
         /\ (BLen(plaintext) > 0 \/ header.num_groups = 0) =>
            result = [kind |-> "Ok", data |-> plaintext]
    /\ cipher # NoCipher =>
          /\ BLen(cipher.data) - BLen(plaintext) \in 1..BlockSize
          /\ BLen(cipher.data) % BlockSize = 0
    /\ pc \in {"dr_lock", "check_success", "check_hash"} /\ tamper = "none" =>
          database = plaintext

\* a round trip of a plaintext of a whole block returned it
C2_Witness ==
    /\ RoundTrip
    /\ result = [kind |-> "Ok", data |-> plaintext]
    /\ BLen(plaintext) = BlockSize
    /\ mode = "both"

\* decrypt_database was given what encrypt_database returned, or its
\* header, with one bit of the ciphertext, of final_randomseed or of
\* transf_randomseed flipped
Altered ==
    /\ DecryptDone
    /\ cipher # NoCipher
    /\ tamper \in {"ct", "fseed", "tseed"}

\* C3: after a flip of one bit of the ciphertext, of final_randomseed or of
\* transf_randomseed, decrypt_database always ends by returning Err(HashErr)
\* or Err(DecryptErr), whatever bytes the raw decryption produced.
C3_Authenticity ==
    Altered => result.kind \in {"HashErr", "DecryptErr"}

\* the master key each arm of get_finalkey hands to transform_key
ExpectedMaster ==
    CASE mode = "pw" -> SHA256(PwString)
      [] mode = "kf" -> kfkey0
      [] OTHER -> SHA256(SHA256(PwString) \o kfkey0)

\* C4: the master key get_finalkey hands to transform_key is SHA-256 of the
\* password with a password only, the key get_keyfilekey returned with a
\* key file only (the 32 bytes of a 32-byte file), and SHA-256(passwordkey
\* || keyfilekey) with both; with neither the call returns Err(PassErr) and
\* has derived no key and run no cipher.
C4_MasterKey ==
    /\ pc = "transform_key" /\ i = 0 =>
          /\ mode = MatchArm(password, keyfile)
          /\ mem["masterkey"].val = ExpectedMaster
          /\ mode = "kf" /\ file.len = KeyLen =>
                mem["masterkey"].val = FileData(file, 0, KeyLen)
    /\ pc = "idle" /\ op # "none" /\ password = "none" /\ keyfile = "none" =>
          /\ result.kind = "PassErr"
          /\ master0 = "" /\ kfkey0 = ""
          /\ \A r \in released : r.site = "database"
          /\ cipher = NoCipher
          /\ database = IF op = "enc" THEN plaintext ELSE Empty
    /\ result.kind = "PassErr" => password = "none" /\ keyfile = "none"

\* transform_key is entered with the master key of both credentials, the
\* key file one of 64 hex digits
C4_Witness ==
    /\ pc = "transform_key"
    /\ i = 0
    /\ mode = "both"
    /\ from_hex_ok(file)

\* C5: for a 64-byte key file that is not 64 hex digits, get_keyfilekey
\* returns SHA-256 of all 64 bytes of the file.
C5_HexFallback ==
    kfkey0 # "" /\ file.len = HexLen /\ ~from_hex_ok(file) =>
        kfkey0 = SHA256(FileData(file, 0, HexLen))

\* C6: every buffer the call released had been overwritten with zeros and
\* unlocked first.
C6_ZeroizeBeforeRelease ==
    \A r \in released : ~r.dirty /\ ~r.locked

\* C7: no credential is left unlocked when decrypt_database or
\* encrypt_database has returned.
C7_CredentialCleanup ==
    pc = "idle" => password # "unlocked" /\ keyfile # "unlocked"

RECURSIVE EcbN(_, _, _)
\* n ECB encryptions of x under key
EcbN(key, x, n) ==
    IF n = 0 THEN x ELSE EcbUpdateVal(key, EcbN(key, x, n - 1))

\* C8: transform_key runs exactly header.key_transf_rounds ECB rounds under
\* header.transf_randomseed on the master key, which stays 32 bytes, and
\* then finalkey = SHA-256(final_randomseed || SHA-256(state)); with no
\* round, finalkey = SHA-256(final_randomseed || SHA-256(master)).
C8_TransformKey ==
    /\ pc = "transform_key" =>
          /\ i <= header.key_transf_rounds
          /\ mem["masterkey"].len = KeyLen
          /\ mem["masterkey"].val = EcbN(header.transf_randomseed, master0, i)
    /\ pc = "tk_final" =>
          /\ i = header.key_transf_rounds
          /\ mem["masterkey"].len = KeyLen
          /\ mem["masterkey"].val =
                SHA256(EcbN(header.transf_randomseed, master0, i))
    /\ pc = "tk_clean" =>
          /\ mem["finalkey"].len = KeyLen
          /\ mem["finalkey"].val =
                SHA256(header.final_randomseed
                       \o SHA256(EcbN(header.transf_randomseed, master0,
                                      header.key_transf_rounds)))
          /\ header.key_transf_rounds = 0 =>
                mem["finalkey"].val =
                   SHA256(header.final_randomseed \o SHA256(master0))

\* transform_key has made its finalkey after more than one round
C8_Witness ==
    /\ pc = "tk_clean"
    /\ header.key_transf_rounds > 1
    /\ i = header.key_transf_rounds

\* what check_decryption_success returned, read off the call's state
C9_Verdicts ==
    /\ pc = "check_hash" \/ (DecryptDone /\ result.kind \in {"Ok", "HashErr"}) =>
          ~(BLen(database) > 2147483446
            \/ (BLen(database) = 0 /\ header.num_groups > 0))
    /\ DecryptDone /\ result.kind = "DecryptErr" =>
          \/ BLen(database) > 2147483446
          \/ (BLen(database) = 0 /\ header.num_groups > 0)

\* C9: check_decryption_success returns Err(DecryptErr) exactly when the
\* plaintext is longer than 2_147_483_446 bytes or is empty with
\* header.num_groups > 0, Ok otherwise, and leaves the plaintext as it was.
C9_EmptyDbRule ==
    /\ []C9_Verdicts
    /\ [][pc = "check_success" => database' = database]_vars

\* a plaintext of exactly 2_147_483_446 bytes passed the check
C9_Witness ==
    /\ pc = "check_hash"
    /\ BLen(database) = 2147483446

\* C10: every buffer that holds non-zero secret bytes is page-locked.
C10_LockInvariant ==
    \A h \in Holders : mem[h].dlen > 0 => mem[h].locked

\* C11: whenever a secret buffer is shortened (the padding strip of
\* decrypt_raw, the truncate(n) of the key-file read buffer after a short
\* read), the bytes it gives up are zero at the moment they are released.
C11_LengthDiscipline ==
    \A r \in shrunk : ~r.dirty

=============================================================================
